---- MODULE Spec2Model ----
(***************************************************************************)
(* The two state engines of curotec-react-typescript.                       *)
(*                                                                         *)
(* DynamicForm: the form reducer, the FormProvider operations built on it   *)
(* (validateField, submitForm, resetForm), the useFormField handlers and    *)
(* the field components' event handlers and error display. Specifications   *)
(* Spec (the shipped components) and SpecApi (the context API).             *)
(*                                                                         *)
(* Optimized data grid: the zustand store useDataGridStore with              *)
(* applyFiltersAndSort, the FilterPanel, DataTable and PaginationControls    *)
(* handlers that call it, and the StatsPanel summary. Specifications        *)
(* SpecGrid (the components on generated data), SpecStore (the store        *)
(* called directly with any filter) and SpecPaged (the store called         *)
(* directly with paging). The two features share no state: each             *)
(* specification leaves the other feature's variables as they are created.  *)
(*                                                                         *)
(* JavaScript values are encoded as follows.                                *)
(*   - a string is the sequence of its characters, so trim() and            *)
(*     includes() are computed and not assumed;                             *)
(*   - a field value (string | boolean | undefined) is a triple             *)
(*     <<typeof, characters, boolean>> tagged by its typeof;                *)
(*   - an optional property (error?, submitError?, a key that an object     *)
(*     may lack) is None = <<>> when undefined and Some(x) = <<x>>          *)
(*     otherwise; messages are atoms (TLA+ strings), "" being the empty     *)
(*     message.                                                             *)
(***************************************************************************)
EXTENDS Integers, Sequences, FiniteSets, TLC

VARIABLES
  state,             \* FormState held by useReducer(formReducer, ...)
  pending,           \* number of onSubmit promises not yet settled
  lastCall,          \* argument of the latest onSubmit call, None before it
  validationSchema,  \* the validationSchema prop of the form
  store,             \* state of the zustand store useDataGridStore
  timers             \* setTimeout callbacks of initializeDataGrid not yet run

vars == <<state, pending, lastCall, validationSchema, store, timers>>

\* ------------------------------------------------------------------ bounds
\* Number of onSubmit promises in flight at once.
MaxPending == 2

\* ------------------------------------------------------- optional values
None == <<>>

Some(x) == <<x>>

\* JavaScript truthiness of an optional message: undefined and '' are falsy.
Truthy(e) == e # None /\ e[1] # ""

\* ------------------------------------------------------------ JS values
StrV(s) == <<"string", s, FALSE>>

BoolV(b) == <<"boolean", <<>>, b>>

undefined == <<"undefined", <<>>, FALSE>>

\* typeof v
typeof(v) == v[1]

\* The characters of a string value.
chars(v) == v[2]

\* The truth value of a boolean value.
bool(v) == v[3]

\* {...undefined}: the object a spread of a missing field yields, every
\* property undefined.
NoField == [name |-> None, value |-> undefined, error |-> None, touched |-> None]

\* Texts a user types into the text input: '', ' ', 'a', 'a@'.
Texts == {<<>>, <<" ">>, <<"a">>, <<"a", "@">>}

\* ------------------------------------------------------- rendered fields
\* The children of the form: <TextField name="email"/> and
\* <CheckboxField name="terms"/>.
TextFields == {"email"}

CheckboxFields == {"terms"}

Names == TextFields \cup CheckboxFields

\* Object.keys order of the fields (insertion order is immaterial to the
\* result of the dispatches below, one order is fixed).
NameOrder == <<"email", "terms">>

\* Default of the second parameter of useFormField as passed by the
\* component: TextField passes '', CheckboxField passes false.
initialValue(name) == IF name \in CheckboxFields THEN BoolV(FALSE) ELSE StrV(<<>>)

\* Values the input element of a field can report in a change event.
InputValues(name) ==
  IF name \in CheckboxFields THEN {BoolV(TRUE), BoolV(FALSE)}
  ELSE {StrV(s) : s \in Texts}

\* ----------------------------------------------------------- validators
IsSpace(c) == c = " "

RECURSIVE TrimStart(_)
TrimStart(s) ==
  IF s # <<>> /\ IsSpace(Head(s)) THEN TrimStart(Tail(s)) ELSE s

RECURSIVE TrimEnd(_)
TrimEnd(s) ==
  IF s # <<>> /\ IsSpace(s[Len(s)]) THEN TrimEnd(SubSeq(s, 1, Len(s) - 1)) ELSE s

\* String.prototype.trim
trim(s) == TrimEnd(TrimStart(s))

\* String.prototype.includes for a one-character needle
includes(s, c) == \E i \in 1..Len(s) : s[i] = c

\* validators.required
required(value) ==
  IF typeof(value) = "string" /\ trim(chars(value)) = <<>>
  THEN Some("This field is required")
  ELSE IF typeof(value) = "boolean" /\ ~bool(value)
  THEN Some("This field is required")
  ELSE None

\* The email validator of the test suite: a non-string or a string
\* without '@' is invalid.
invalidEmail(value) ==
  IF typeof(value) # "string" \/ ~includes(chars(value), "@") THEN Some("Invalid email")
  ELSE None

\* Validators a schema entry can hold; "absent" is a missing entry.
ValidatorKinds == {"absent", "required", "invalidEmail"}

\* validator(value) for the validator stored under a schema entry
applyValidator(kind, value) ==
  CASE kind = "required" -> required(value)
    [] kind = "invalidEmail" -> invalidEmail(value)

\* FormProvider.validateField
validateField(name, value) ==
  IF validationSchema[name] # "absent"
  THEN applyValidator(validationSchema[name], value)
  ELSE None

\* ---------------------------------------------------------------- fields
\* state.fields[name], spread
spreadField(fields, name) ==
  IF name \in DOMAIN fields THEN fields[name] ELSE NoField

\* {...fields, [name]: f}
putField(fields, name, f) ==
  [n \in (DOMAIN fields) \cup {name} |-> IF n = name THEN f ELSE fields[n]]

\* resetAllFields that clears touched and error but keeps the value.
resetAllFieldsKeepsValue(fields) ==
  [key \in DOMAIN fields |->
     [fields[key] EXCEPT !.touched = Some(FALSE), !.error = None]]

\* resetAllFields
resetAllFields(fields) ==
  [key \in DOMAIN fields |->
     [fields[key] EXCEPT !.touched = Some(FALSE),
                         !.value = StrV(<<>>),
                         !.error = None]]

\* ---------------------------------------------------------------- actions
SET_FIELD_VALUE(name, value) ==
  [type |-> "SET_FIELD_VALUE", name |-> name, value |-> value]

SET_FIELD_ERROR(name, error) ==
  [type |-> "SET_FIELD_ERROR", name |-> name, error |-> error]

SET_FIELD_TOUCHED(name) == [type |-> "SET_FIELD_TOUCHED", name |-> name]

SET_SUBMITTING(payload) == [type |-> "SET_SUBMITTING", payload |-> payload]

SET_SUBMITTED(payload) == [type |-> "SET_SUBMITTED", payload |-> payload]

SET_SUBMIT_ERROR(payload) == [type |-> "SET_SUBMIT_ERROR", payload |-> payload]

RESET_FORM == [type |-> "RESET_FORM"]

\* --------------------------------------------------------------- reducer
\* SET_FIELD_VALUE that also marks the field untouched.
reduceSetFieldValueUntouches(s, action) ==
  [s EXCEPT !.fields =
     putField(s.fields, action.name,
              [spreadField(s.fields, action.name) EXCEPT
                 !.name = Some(action.name),
                 !.value = action.value,
                 !.error = None,
                 !.touched = Some(FALSE)])]

\* case 'SET_FIELD_VALUE'
reduceSetFieldValue(s, action) ==
  [s EXCEPT !.fields =
     putField(s.fields, action.name,
              [spreadField(s.fields, action.name) EXCEPT
                 !.name = Some(action.name),
                 !.value = action.value,
                 !.error = None])]

\* SET_FIELD_ERROR that builds the field anew instead of spreading the
\* existing one.
reduceSetFieldErrorNoSpread(s, action) ==
  [s EXCEPT !.fields =
     putField(s.fields, action.name,
              [NoField EXCEPT !.error = Some(action.error)])]

\* case 'SET_FIELD_ERROR'
reduceSetFieldError(s, action) ==
  [s EXCEPT !.fields =
     putField(s.fields, action.name,
              [spreadField(s.fields, action.name) EXCEPT
                 !.error = Some(action.error)])]

\* case 'SET_FIELD_TOUCHED'
reduceSetFieldTouched(s, action) ==
  [s EXCEPT !.fields =
     putField(s.fields, action.name,
              [spreadField(s.fields, action.name) EXCEPT
                 !.touched = Some(TRUE)])]

\* case 'SET_SUBMITTING'
reduceSetSubmitting(s, action) == [s EXCEPT !.isSubmitting = action.payload]

\* case 'SET_SUBMITTED'
reduceSetSubmitted(s, action) == [s EXCEPT !.isSubmitted = action.payload]

\* case 'SET_SUBMIT_ERROR'
reduceSetSubmitError(s, action) == [s EXCEPT !.submitError = Some(action.payload)]

\* case 'RESET_FORM'
reduceResetForm(s, action) ==
  [fields |-> resetAllFields(s.fields),
   isSubmitting |-> FALSE,
   isSubmitted |-> FALSE,
   submitError |-> None]

formReducer(s, action) ==
  CASE action.type = "SET_FIELD_VALUE" -> reduceSetFieldValue(s, action)
    [] action.type = "SET_FIELD_ERROR" -> reduceSetFieldError(s, action)
    [] action.type = "SET_FIELD_TOUCHED" -> reduceSetFieldTouched(s, action)
    [] action.type = "SET_SUBMITTING" -> reduceSetSubmitting(s, action)
    [] action.type = "SET_SUBMITTED" -> reduceSetSubmitted(s, action)
    [] action.type = "SET_SUBMIT_ERROR" -> reduceSetSubmitError(s, action)
    [] action.type = "RESET_FORM" -> reduceResetForm(s, action)
    [] OTHER -> s

\* The state after a handler's dispatches, applied in order.
RECURSIVE dispatch(_, _)
dispatch(s, actions) ==
  IF actions = <<>> THEN s
  ELSE dispatch(formReducer(s, Head(actions)), Tail(actions))

\* ------------------------------------------------------ external callback
\* What a rejected onSubmit promise carries: an Error with a message, an
\* Error without one (new Error()), or a value that is not an Error and
\* has no message.
ThrownValues ==
  {[isError |-> TRUE, message |-> "Network error"],
   [isError |-> TRUE, message |-> ""],
   [isError |-> FALSE, message |-> ""]}

\* error instanceof Error ? error.message : 'Submission failed'
submitErrorPayload(thrown) ==
  IF thrown.isError THEN thrown.message ELSE "Submission failed"

\* ------------------------------------------------------------ useFormField
\* const field = state.fields[name] || { name, value: initialValue, touched: false }
useFormField(s, name) ==
  IF name \in DOMAIN s.fields THEN s.fields[name]
  ELSE [name |-> Some(name), value |-> initialValue(name),
        error |-> None, touched |-> Some(FALSE)]

\* TextField / CheckboxField: hasError = field.error, and the alert with
\* field.error is rendered when hasError is truthy.
errorShown(s, name) == Truthy(useFormField(s, name).error)

\* Dispatches of useFormField.handleChange(value)
handleChangeActions(name, value) ==
  LET error == validateField(name, value)
  IN <<SET_FIELD_VALUE(name, value)>>
     \o (IF Truthy(error) THEN <<SET_FIELD_ERROR(name, error[1])>> ELSE <<>>)

\* Dispatches of useFormField.handleBlur(), field being the one of the
\* render the handler was created in.
handleBlurActions(s, name) ==
  LET error == validateField(name, useFormField(s, name).value)
  IN <<SET_FIELD_TOUCHED(name)>>
     \o (IF Truthy(error) THEN <<SET_FIELD_ERROR(name, error[1])>> ELSE <<>>)

\* Dispatches of TextField.handleInputChange: handleChange, then a second
\* validation when the field is touched.
handleInputChangeActions(s, name, value) ==
  LET error == validateField(name, value)
  IN handleChangeActions(name, value)
     \o (IF useFormField(s, name).touched = Some(TRUE) /\ Truthy(error)
         THEN <<SET_FIELD_ERROR(name, error[1])>> ELSE <<>>)

\* -------------------------------------------------------------- submitForm
\* The names of Object.keys(state.fields), in order.
fieldKeys(s) == SelectSeq(NameOrder, LAMBDA n : n \in DOMAIN s.fields)

\* values[name] = field.value for every field of state.fields
submitValues(s) == [n \in DOMAIN s.fields |-> s.fields[n].value]

\* The setFieldError dispatches of the forEach of submitForm.
RECURSIVE validationActions(_, _)
validationActions(s, keys) ==
  IF keys = <<>> THEN <<>>
  ELSE LET name == Head(keys)
           error == validateField(name, s.fields[name].value)
       IN (IF Truthy(error) THEN <<SET_FIELD_ERROR(name, error[1])>> ELSE <<>>)
          \o validationActions(s, Tail(keys))

\* hasErrors after the forEach
hasErrors(s) ==
  \E n \in DOMAIN s.fields : Truthy(validateField(n, s.fields[n].value))

\* Dispatches of submitForm up to the await (or up to its return when
\* validation fails: SET_SUBMITTING false in the if, again in finally).
submitFormActions(s) ==
  <<SET_SUBMITTING(TRUE), SET_SUBMIT_ERROR("")>>
  \o validationActions(s, fieldKeys(s))
  \o (IF hasErrors(s) THEN <<SET_SUBMITTING(FALSE), SET_SUBMITTING(FALSE)>> ELSE <<>>)

\* Dispatches after the awaited onSubmit promise fulfils.
resolvedActions == <<SET_SUBMITTED(TRUE), SET_SUBMITTING(FALSE)>>

\* The catch block without the finally block.
rejectedActionsNoFinally(thrown) ==
  <<SET_SUBMIT_ERROR(submitErrorPayload(thrown))>>

\* Dispatches after the awaited onSubmit promise rejects: catch, finally.
rejectedActions(thrown) ==
  <<SET_SUBMIT_ERROR(submitErrorPayload(thrown)), SET_SUBMITTING(FALSE)>>

\* ============================================================ data grid
\* The optimized data grid: the zustand store useDataGridStore, the
\* FilterPanel, DataTable and PaginationControls handlers that call it.
\* Strings are sequences of characters, as in the form part.

\* ---------------------------------------------------------- characters
Upper == <<"A", "B", "C", "D", "E", "F", "G", "H", "I", "J", "K", "L", "M", "N", "O", "P", "Q", "R", "S", "T", "U", "V", "W", "X", "Y", "Z">>

Lower == <<"a", "b", "c", "d", "e", "f", "g", "h", "i", "j", "k", "l", "m", "n", "o", "p", "q", "r", "s", "t", "u", "v", "w", "x", "y", "z">>

Digits == <<"0", "1", "2", "3", "4", "5", "6", "7", "8", "9">>

\* The characters the strings of the grid are made of.
Characters ==
  {" ", "-", ".", "@"}
    \cup {Upper[i] : i \in 1..Len(Upper)}
    \cup {Lower[i] : i \in 1..Len(Lower)}
    \cup {Digits[i] : i \in 1..Len(Digits)}

\* String.prototype.toLowerCase on each character
LowerCaseOf ==
  [c \in Characters |->
     IF \E i \in 1..Len(Upper) : Upper[i] = c
     THEN Lower[CHOOSE i \in 1..Len(Upper) : Upper[i] = c]
     ELSE c]

\* String.prototype.toLowerCase, one character
toLowerChar(c) == LowerCaseOf[c]

\* String.prototype.toLowerCase
toLowerCase(s) == [i \in 1..Len(s) |-> toLowerChar(s[i])]

\* String.prototype.includes for a string needle
includesString(s, searchString) ==
  \E i \in 0..(Len(s) - Len(searchString)) :
    SubSeq(s, i + 1, i + Len(searchString)) = searchString

\* The collation of String.prototype.localeCompare on the characters the
\* grid's strings are made of: punctuation, then digits, then letters; a
\* letter's case only breaks a tie, lower case first.
CollationOrder == <<" ", "-", ".", "@">> \o Digits \o Lower

CollationRankOf ==
  [c \in Characters |->
     CHOOSE i \in 1..Len(CollationOrder) : CollationOrder[i] = LowerCaseOf[c]]

collationRank(c) == CollationRankOf[c]

\* The first comparison level: the characters' ranks, position by position;
\* a proper prefix comes first.
comparePrimary(a, b) ==
  LET n == IF Len(a) < Len(b) THEN Len(a) ELSE Len(b)
      differ == {i \in 1..n : collationRank(a[i]) # collationRank(b[i])}
      first == CHOOSE i \in differ : \A j \in differ : i <= j
  IN IF differ # {}
     THEN (IF collationRank(a[first]) < collationRank(b[first]) THEN -1 ELSE 1)
     ELSE IF Len(a) < Len(b) THEN -1
     ELSE IF Len(a) > Len(b) THEN 1
     ELSE 0

\* The tie-breaking level: at the first position where the strings differ
\* the lower-case letter comes first.
compareCase(a, b) ==
  LET n == IF Len(a) < Len(b) THEN Len(a) ELSE Len(b)
      differ == {i \in 1..n : a[i] # b[i]}
      first == CHOOSE i \in differ : \A j \in differ : i <= j
  IN IF differ = {} THEN 0
     ELSE IF a[first] = toLowerChar(a[first]) THEN -1
     ELSE 1

\* String.prototype.localeCompare
localeCompare(a, b) ==
  LET primary == comparePrimary(a, b)
  IN IF primary # 0 THEN primary ELSE compareCase(a, b)

\* ---------------------------------------------------------------- data
\* Departments and statuses of generateMockData that the model draws from.
Sales == <<"S", "a", "l", "e", "s">>

HR == <<"H", "R">>

active == <<"a", "c", "t", "i", "v", "e">>

inactive == <<"i", "n", "a", "c", "t", "i", "v", "e">>

\* Start dates (ISO date strings) the model draws from.
StartDates == <<<<"2", "0", "2", "3", "-", "0", "1", "-", "0", "5">>, <<"2", "0", "2", "4", "-", "1", "1", "-", "2", "0">>>>

\* The text of a positive integer below 10.
numberText(n) == <<Digits[n + 1]>>

\* One element of generateMockData's array: index is the array index, draw
\* the values its Math.random() calls select, <<department, salary,
\* startDate, status>>.
mockItem(index, draw) ==
  [name |-> <<"E", "m", "p", "l", "o", "y", "e", "e", " ">> \o numberText(index + 1),
   id |-> index + 1,
   email |-> <<"e", "m", "p", "l", "o", "y", "e", "e">> \o numberText(index + 1) \o <<"@", "c", "o", "m", "p", "a", "n", "y", ".", "c", "o", "m">>,
   department |-> draw[1],
   salary |-> draw[2],
   startDate |-> draw[3],
   status |-> draw[4]]

\* The keys of a DataItem that hold strings; id and salary hold numbers.
StringKeys == {"name", "email", "department", "startDate", "status"}

NumberKeys == {"id", "salary"}

\* --------------------------------------------------------------- store
\* The filterConfig of the initial state and of resetFilters.
defaultFilterConfig ==
  [department |-> <<>>, status |-> <<>>, search |-> <<>>,
   minSalary |-> 0, maxSalary |-> 200000]

\* The state the store is created with.
initialStore ==
  [items |-> <<>>,
   filteredItems |-> <<>>,
   isLoading |-> FALSE,
   currentPage |-> 1,
   itemsPerPage |-> 20,
   totalPages |-> 1,
   sortConfig |-> None,
   filterConfig |-> defaultFilterConfig]

mathFloor(n, d) == n \div d

\* Math.ceil(n / d) for a count n and a positive d
mathCeil(n, d) == (n + d - 1) \div d

\* if (filterConfig.search) filtered = filtered.filter(...)
filterBySearch(filtered, filterConfig) ==
  LET searchLower == toLowerCase(filterConfig.search)
      keep(item) ==
        \/ includesString(toLowerCase(item.name), searchLower)
        \/ includesString(toLowerCase(item.email), searchLower)
        \/ includesString(toLowerCase(item.department), searchLower)
  IN IF filterConfig.search # <<>> THEN SelectSeq(filtered, keep) ELSE filtered

\* if (filterConfig.department) filtered = filtered.filter(...)
filterByDepartment(filtered, filterConfig) ==
  LET keep(item) == item.department = filterConfig.department
  IN IF filterConfig.department # <<>> THEN SelectSeq(filtered, keep) ELSE filtered

\* if (filterConfig.status) filtered = filtered.filter(...)
filterByStatus(filtered, filterConfig) ==
  LET keep(item) == item.status = filterConfig.status
  IN IF filterConfig.status # <<>> THEN SelectSeq(filtered, keep) ELSE filtered

\* if (filterConfig.minSalary > 0) filtered = filtered.filter(...)
filterByMinSalary(filtered, filterConfig) ==
  LET keep(item) == item.salary >= filterConfig.minSalary
  IN IF filterConfig.minSalary > 0 THEN SelectSeq(filtered, keep) ELSE filtered

\* if (filterConfig.maxSalary < 200000) filtered = filtered.filter(...)
filterByMaxSalary(filtered, filterConfig) ==
  LET keep(item) == item.salary <= filterConfig.maxSalary
  IN IF filterConfig.maxSalary < 200000 THEN SelectSeq(filtered, keep) ELSE filtered

\* The filtering part of applyFiltersAndSort.
applyFilters(items, filterConfig) ==
  filterByMaxSalary(
    filterByMinSalary(
      filterByStatus(
        filterByDepartment(
          filterBySearch(items, filterConfig), filterConfig), filterConfig),
      filterConfig), filterConfig)

compareItemsIgnoringDirection(a, b, sortConfig) ==
  LET aValue == a[sortConfig.key]
      bValue == b[sortConfig.key]
  IN IF sortConfig.key \in StringKeys THEN localeCompare(aValue, bValue)
     ELSE IF sortConfig.key \in NumberKeys THEN aValue - bValue
     ELSE 0

\* The comparator applyFiltersAndSort passes to Array.prototype.sort.
compareItems(a, b, sortConfig) ==
  LET aValue == a[sortConfig.key]
      bValue == b[sortConfig.key]
      comparison ==
        IF sortConfig.key \in StringKeys THEN localeCompare(aValue, bValue)
        ELSE IF sortConfig.key \in NumberKeys THEN aValue - bValue
        ELSE 0
  IN IF sortConfig.direction = "asc" THEN comparison ELSE -comparison

\* Array.prototype.sort is stable: an element goes behind every element
\* that does not compare greater than it.
RECURSIVE insertSorted(_, _, _)
insertSorted(sorted, x, sortConfig) ==
  IF sorted = <<>> THEN <<x>>
  ELSE IF compareItems(Head(sorted), x, sortConfig) > 0 THEN <<x>> \o sorted
  ELSE <<Head(sorted)>> \o insertSorted(Tail(sorted), x, sortConfig)

\* Array.prototype.sort with the comparator above
RECURSIVE sort(_, _)
sort(filtered, sortConfig) ==
  IF filtered = <<>> THEN <<>>
  ELSE insertSorted(sort(SubSeq(filtered, 1, Len(filtered) - 1), sortConfig),
                    filtered[Len(filtered)], sortConfig)

\* The sorting part of applyFiltersAndSort: if (sortConfig) filtered.sort(...)
applySort(filtered, sortConfig) ==
  IF sortConfig # None THEN sort(filtered, sortConfig[1]) ELSE filtered

\* applyFiltersAndSort that starts from the items array itself instead of
\* a copy of it (let filtered = items): when no filter replaces the array by
\* a new one, Array.prototype.sort sorts items in place.
applyFiltersAndSortInPlace(st) ==
  LET filtered == applySort(applyFilters(st.items, st.filterConfig), st.sortConfig)
      aliased == /\ st.filterConfig.search = <<>>
                 /\ st.filterConfig.department = <<>>
                 /\ st.filterConfig.status = <<>>
                 /\ ~(st.filterConfig.minSalary > 0)
                 /\ ~(st.filterConfig.maxSalary < 200000)
  IN [st EXCEPT !.items = IF aliased THEN filtered ELSE st.items,
                !.filteredItems = filtered,
                !.totalPages = mathCeil(Len(filtered), st.itemsPerPage)]

\* DataGridState.applyFiltersAndSort: let filtered = [...items] is a new
\* array, so that filter and the in-place sort leave st.items alone.
applyFiltersAndSort(st) ==
  LET filtered == applySort(applyFilters(st.items, st.filterConfig), st.sortConfig)
  IN [st EXCEPT !.filteredItems = filtered,
                !.totalPages = mathCeil(Len(filtered), st.itemsPerPage)]

\* DataGridState.setItems
setItems(st, items) ==
  applyFiltersAndSort(
    [st EXCEPT !.items = items,
               !.totalPages = mathCeil(Len(items), st.itemsPerPage)])

\* DataGridState.setLoading
setLoading(st, loading) == [st EXCEPT !.isLoading = loading]

\* DataGridState.setCurrentPage
setCurrentPage(st, page) == [st EXCEPT !.currentPage = page]

setItemsPerPageKeepsPage(st, perPage) ==
  applyFiltersAndSort(
    [st EXCEPT !.itemsPerPage = perPage,
               !.totalPages = mathCeil(Len(st.items), perPage)])

setItemsPerPageNoApply(st, perPage) ==
  [st EXCEPT !.itemsPerPage = perPage,
             !.currentPage = 1,
             !.totalPages = mathCeil(Len(st.items), perPage)]

\* DataGridState.setItemsPerPage
setItemsPerPage(st, perPage) ==
  applyFiltersAndSort(
    [st EXCEPT !.itemsPerPage = perPage,
               !.currentPage = 1,
               !.totalPages = mathCeil(Len(st.items), perPage)])

setSortConfigNoApply(st, config) == [st EXCEPT !.sortConfig = config]

\* DataGridState.setSortConfig
setSortConfig(st, config) ==
  applyFiltersAndSort([st EXCEPT !.sortConfig = config])

mergeOntoDefaultFilterConfig(filterConfig, config) ==
  [k \in DOMAIN filterConfig |->
     IF k \in DOMAIN config THEN config[k] ELSE defaultFilterConfig[k]]

\* { ...get().filterConfig, ...config }: config holds some of the keys.
mergeFilterConfig(filterConfig, config) ==
  [k \in DOMAIN filterConfig |->
     IF k \in DOMAIN config THEN config[k] ELSE filterConfig[k]]

setFilterConfigKeepsPage(st, config) ==
  applyFiltersAndSort(
    [st EXCEPT !.filterConfig = mergeFilterConfig(st.filterConfig, config)])

\* DataGridState.setFilterConfig
setFilterConfig(st, config) ==
  applyFiltersAndSort(
    [st EXCEPT !.filterConfig = mergeFilterConfig(st.filterConfig, config),
               !.currentPage = 1])

resetFiltersKeepsSort(st) ==
  applyFiltersAndSort(
    [st EXCEPT !.filterConfig = defaultFilterConfig,
               !.currentPage = 1])

\* DataGridState.resetFilters
resetFilters(st) ==
  applyFiltersAndSort(
    [st EXCEPT !.filterConfig = defaultFilterConfig,
               !.sortConfig = None,
               !.currentPage = 1])

\* ------------------------------------------------------------------- Init
\* initialValues: a value for some of the rendered fields.
InitialValuesSets ==
  UNION {[D -> UNION {InputValues(n) : n \in D}] : D \in SUBSET Names}

\* FormProvider: the first state of useReducer.
initialState(iv) ==
  [fields |-> [key \in DOMAIN iv |->
                 [name |-> Some(key), value |-> iv[key],
                  error |-> None, touched |-> Some(FALSE)]],
   isSubmitting |-> FALSE,
   isSubmitted |-> FALSE,
   submitError |-> None]

\* The validation schemas explored: any entry for the text field, the
\* checkbox is required or has no entry.
Schemas ==
  {sc \in [Names -> ValidatorKinds] :
     \A n \in CheckboxFields : sc[n] \in {"absent", "required"}}

Init ==
  /\ validationSchema \in Schemas
  /\ \E iv \in InitialValuesSets :
       /\ \A n \in DOMAIN iv : iv[n] \in InputValues(n)
       /\ state = initialState(iv)
  /\ pending = 0
  /\ lastCall = None
  /\ store = initialStore
  /\ timers = 0

\* -------------------------------------------------------------- UI events
\* onChange of the text input
handleInputChange(name, value) ==
  /\ name \in TextFields
  /\ state' = dispatch(state, handleInputChangeActions(state, name, value))
  /\ UNCHANGED <<pending, lastCall, validationSchema, store, timers>>

\* onChange of the checkbox
handleCheckboxChange(name, value) ==
  /\ name \in CheckboxFields
  /\ state' = dispatch(state, handleChangeActions(name, value))
  /\ UNCHANGED <<pending, lastCall, validationSchema, store, timers>>

\* onBlur of an input
handleBlur(name) ==
  /\ state' = dispatch(state, handleBlurActions(state, name))
  /\ UNCHANGED <<pending, lastCall, validationSchema, store, timers>>

\* FormProvider.submitForm, up to its first suspension or its return:
\* onSubmit(values) is called when no field has an error.
submitForm ==
  /\ hasErrors(state) \/ pending < MaxPending
  /\ state' = dispatch(state, submitFormActions(state))
  /\ pending' = IF hasErrors(state) THEN pending ELSE pending + 1
  /\ lastCall' = IF hasErrors(state) THEN lastCall ELSE Some(submitValues(state))
  /\ UNCHANGED <<validationSchema, store, timers>>

\* FormContainer.handleSubmit: the form's submit event, which the disabled
\* Submit button withholds while state.isSubmitting.
handleSubmit ==
  /\ ~state.isSubmitting
  /\ submitForm

\* The Reset button: resetForm
resetForm ==
  /\ state' = dispatch(state, <<RESET_FORM>>)
  /\ UNCHANGED <<pending, lastCall, validationSchema, store, timers>>

\* An onSubmit promise fulfils and its submitForm resumes.
onSubmitResolves ==
  /\ pending > 0
  /\ state' = dispatch(state, resolvedActions)
  /\ pending' = pending - 1
  /\ UNCHANGED <<lastCall, validationSchema, store, timers>>

\* An onSubmit promise rejects and its submitForm resumes.
onSubmitRejects(thrown) ==
  /\ pending > 0
  /\ state' = dispatch(state, rejectedActions(thrown))
  /\ pending' = pending - 1
  /\ UNCHANGED <<lastCall, validationSchema, store, timers>>

Next ==
  \/ \E name \in TextFields, value \in Texts : handleInputChange(name, StrV(value))
  \/ \E name \in CheckboxFields, value \in BOOLEAN : handleCheckboxChange(name, BoolV(value))
  \/ \E name \in Names : handleBlur(name)
  \/ handleSubmit
  \/ resetForm
  \/ onSubmitResolves
  \/ \E thrown \in ThrownValues : onSubmitRejects(thrown)

Spec == Init /\ [][Next]_vars


\* ------------------------------------------------------------ context API
\* Messages a caller of setFieldError attaches.
ApiErrors == {"Custom error"}

\* Values a caller of setFieldValue stores.
ApiValues(name) == IF name \in CheckboxFields THEN {BoolV(TRUE)} ELSE {StrV(<<"a", "@">>)}

\* A form without initial values whose fields are all required.
InitApi ==
  /\ validationSchema = [n \in Names |-> "required"]
  /\ state = initialState(<<>>)
  /\ pending = 0
  /\ lastCall = None
  /\ store = initialStore
  /\ timers = 0

\* FormContextType.setFieldValue
setFieldValue(name, value) ==
  /\ state' = dispatch(state, <<SET_FIELD_VALUE(name, value)>>)
  /\ UNCHANGED <<pending, lastCall, validationSchema, store, timers>>

\* FormContextType.setFieldError
setFieldError(name, error) ==
  /\ state' = dispatch(state, <<SET_FIELD_ERROR(name, error)>>)
  /\ UNCHANGED <<pending, lastCall, validationSchema, store, timers>>

\* FormContextType.setFieldTouched
setFieldTouched(name) ==
  /\ state' = dispatch(state, <<SET_FIELD_TOUCHED(name)>>)
  /\ UNCHANGED <<pending, lastCall, validationSchema, store, timers>>

\* The form driven through its context by a custom child component.
NextApi ==
  \/ \E name \in Names, value \in UNION {ApiValues(n) : n \in Names} :
       /\ value \in ApiValues(name)
       /\ setFieldValue(name, value)
  \/ \E name \in Names, error \in ApiErrors : setFieldError(name, error)
  \/ \E name \in Names : setFieldTouched(name)
  \/ handleSubmit
  \/ resetForm
  \/ onSubmitResolves
  \/ \E thrown \in ThrownValues : onSubmitRejects(thrown)

SpecApi == InitApi /\ [][NextApi]_vars


\* ============================================== data grid: specifications
\* Length of the array generateMockData returns (the grid asks for 100).
MockCount == 3

\* setTimeout callbacks of initializeDataGrid waiting at once: the store is
\* one per page and the effect has no cleanup, so a grid mounted again
\* within the delay adds a callback to the one still waiting.
MaxTimers == 2

\* Largest page number a page change goes to.
MaxPage == 4

\* What the Math.random() calls of one generated item select.
Draws ==
  {<<Sales, 50000, StartDates[1], active>>,
   <<HR, 90000, StartDates[2], inactive>>}

\* The arrays generateMockData(count) can return.
generateMockData(count) ==
  {[i \in 1..count |-> mockItem(i - 1, draws[i])] : draws \in [1..count -> Draws]}

\* Texts typed into the search box.
SearchTexts == {<<>>, <<"S", "A", "L">>}

\* Options of the department and status selects that the model chooses.
DepartmentOptions == {<<>>, HR}

StatusOptions == {<<>>, active}

\* What the salary inputs hold after a change: nothing, or a number.
SalaryInputs == {None, Some(90000)}

\* Page sizes offered by the select, scaled to MockCount.
PageSizeOptions == {1, 2}

\* Column headers that are clicked.
SortableKeys == {"name", "salary"}

\* Number(e.target.value) || fallback
numberOr(input, fallback) ==
  IF input = None \/ input[1] = 0 THEN fallback ELSE input[1]

\* FilterPanel.hasActiveFilters
hasActiveFilters(filterConfig) ==
  \/ filterConfig.search # <<>>
  \/ filterConfig.department # <<>>
  \/ filterConfig.status # <<>>
  \/ filterConfig.minSalary > 0
  \/ filterConfig.maxSalary < 200000

\* DataTable.renderPagination: maxVisiblePages
maxVisiblePages == 5

Max(a, b) == IF a > b THEN a ELSE b

Min(a, b) == IF a < b THEN a ELSE b

\* DataTable.renderPagination: the numbered buttons shown
visiblePages(st) ==
  LET startPage == Max(1, st.currentPage - (maxVisiblePages \div 2))
      endPage == Min(st.totalPages, startPage + maxVisiblePages - 1)
      adjusted == IF endPage - startPage + 1 < maxVisiblePages
                  THEN Max(1, endPage - maxVisiblePages + 1)
                  ELSE startPage
  IN adjusted..endPage

\* The pages the enabled pagination buttons of DataTable lead to: none
\* while the spinner replaces the table or when there is one page at most.
enabledPages(st) ==
  IF st.isLoading \/ ~(st.totalPages > 1) THEN {}
  ELSE (IF st.currentPage = 1 THEN {} ELSE {st.currentPage - 1})
         \cup visiblePages(st)
         \cup (IF st.currentPage = st.totalPages THEN {} ELSE {st.currentPage + 1})

handleSortConfigAnyKey(sortConfig, key) ==
  [key |-> key,
   direction |-> IF sortConfig # None /\ sortConfig[1].direction = "asc"
                 THEN "desc" ELSE "asc"]

\* DataTable.handleSort: the argument of setSortConfig
handleSortConfig(sortConfig, key) ==
  [key |-> key,
   direction |-> IF sortConfig # None /\ sortConfig[1].key = key
                    /\ sortConfig[1].direction = "asc"
                 THEN "desc" ELSE "asc"]

paginatedItemsWholeList(filteredItems, currentPage, itemsPerPage) ==
  filteredItems

\* The third value of DataItem['status'].
pendingStatus == <<"p", "e", "n", "d", "i", "n", "g">>

\* Math.round of the quotient of two positive numbers
mathRound(n, d) == (2 * n + d) \div (2 * d)

\* filteredItems.reduce((sum, item) => sum + item.salary, 0)
RECURSIVE sumSalary(_)
sumSalary(filteredItems) ==
  IF filteredItems = <<>> THEN 0
  ELSE filteredItems[1].salary + sumSalary(Tail(filteredItems))

\* filteredItems.filter(item => item.status === status).length
countStatus(filteredItems, status) ==
  Cardinality({i \in 1..Len(filteredItems) : filteredItems[i].status = status})

\* StatsPanel: stats
stats(st) ==
  IF st.isLoading \/ Len(st.filteredItems) = 0
  THEN [totalItems |-> 0, filteredItems |-> 0, avgSalary |-> 0,
        activeCount |-> 0, inactiveCount |-> 0, pendingCount |-> 0]
  ELSE [totalItems |-> Len(st.items),
        filteredItems |-> Len(st.filteredItems),
        avgSalary |-> mathRound(sumSalary(st.filteredItems), Len(st.filteredItems)),
        activeCount |-> countStatus(st.filteredItems, active),
        inactiveCount |-> countStatus(st.filteredItems, inactive),
        pendingCount |-> countStatus(st.filteredItems, pendingStatus)]

\* DataTable.paginatedItems: filteredItems.slice(startIndex, endIndex)
paginatedItems(filteredItems, currentPage, itemsPerPage) ==
  LET startIndex == (currentPage - 1) * itemsPerPage
      endIndex == startIndex + itemsPerPage
  IN SubSeq(filteredItems, startIndex + 1, Min(endIndex, Len(filteredItems)))

\* The grid before OptimizedDataGrid mounts; the form is not in use.
InitGrid ==
  /\ store = initialStore
  /\ timers = 0
  /\ state = initialState(<<>>)
  /\ validationSchema = [n \in Names |-> "absent"]
  /\ pending = 0
  /\ lastCall = None

\* useEffect of OptimizedDataGrid: initializeDataGrid up to its setTimeout
initializeDataGrid ==
  /\ timers < MaxTimers
  /\ store' = setLoading(store, TRUE)
  /\ timers' = timers + 1
  /\ UNCHANGED <<state, pending, lastCall, validationSchema>>

\* The setTimeout callback of initializeDataGrid
timeoutFires(mockData) ==
  /\ timers > 0
  /\ store' = setLoading(setItems(store, mockData), FALSE)
  /\ timers' = timers - 1
  /\ UNCHANGED <<state, pending, lastCall, validationSchema>>

\* FilterPanel.handleSearchChange
handleSearchChange(value) ==
  /\ store' = setFilterConfig(store, [search |-> value])
  /\ UNCHANGED <<timers, state, pending, lastCall, validationSchema>>

\* FilterPanel.handleDepartmentChange
handleDepartmentChange(value) ==
  /\ store' = setFilterConfig(store, [department |-> value])
  /\ UNCHANGED <<timers, state, pending, lastCall, validationSchema>>

\* FilterPanel.handleStatusChange
handleStatusChange(value) ==
  /\ store' = setFilterConfig(store, [status |-> value])
  /\ UNCHANGED <<timers, state, pending, lastCall, validationSchema>>

\* FilterPanel.handleMinSalaryChange
handleMinSalaryChange(input) ==
  /\ store' = setFilterConfig(store, [minSalary |-> numberOr(input, 0)])
  /\ UNCHANGED <<timers, state, pending, lastCall, validationSchema>>

\* FilterPanel.handleMaxSalaryChange
handleMaxSalaryChange(input) ==
  /\ store' = setFilterConfig(store, [maxSalary |-> numberOr(input, 200000)])
  /\ UNCHANGED <<timers, state, pending, lastCall, validationSchema>>

\* FilterPanel.handleReset, behind the button "Clear All" that is rendered
\* when a filter is active.
handleReset ==
  /\ hasActiveFilters(store.filterConfig)
  /\ store' = resetFilters(store)
  /\ UNCHANGED <<timers, state, pending, lastCall, validationSchema>>

\* DataTable.handleSort: setSortConfig({ key, direction: newDirection })
headerClick(st, key) ==
  setSortConfig(st, Some(handleSortConfig(st.sortConfig, key)))

\* DataTable.handleSort: a click on a column header of the rendered table
handleSort(key) ==
  /\ ~store.isLoading
  /\ store' = headerClick(store, key)
  /\ UNCHANGED <<timers, state, pending, lastCall, validationSchema>>

\* DataTable.handlePageChange: a click on an enabled pagination button
handlePageChange(page) ==
  /\ page \in enabledPages(store)
  /\ page <= MaxPage
  /\ store' = setCurrentPage(store, page)
  /\ UNCHANGED <<timers, state, pending, lastCall, validationSchema>>

\* PaginationControls.handleItemsPerPageChange
handleItemsPerPageChange(value) ==
  /\ store' = setItemsPerPage(store, value)
  /\ UNCHANGED <<timers, state, pending, lastCall, validationSchema>>

NextGrid ==
  \/ initializeDataGrid
  \/ \E mockData \in generateMockData(MockCount) : timeoutFires(mockData)
  \/ \E value \in SearchTexts : handleSearchChange(value)
  \/ \E value \in DepartmentOptions : handleDepartmentChange(value)
  \/ \E value \in StatusOptions : handleStatusChange(value)
  \/ \E input \in SalaryInputs : handleMinSalaryChange(input)
  \/ \E input \in SalaryInputs : handleMaxSalaryChange(input)
  \/ handleReset
  \/ \E key \in SortableKeys : handleSort(key)
  \/ \E page \in 1..MaxPage : handlePageChange(page)
  \/ \E value \in PageSizeOptions : handleItemsPerPageChange(value)

SpecGrid == InitGrid /\ [][NextGrid]_vars

\* ------------------------------------------------- the store called directly
\* Length of the arrays handed to setItems.
MaxItems == 2

\* Items handed to setItems: what generateMockData draws, and a salary
\* above every salary it draws.
StoreDraws == Draws \cup {<<HR, 250000, StartDates[2], active>>}

\* The arrays handed to setItems.
ItemLists ==
  UNION {{[i \in 1..n |-> mockItem(i - 1, draws[i])] : draws \in [1..n -> StoreDraws]} :
           n \in 0..MaxItems}

\* The keys of FilterConfig.
FilterKeys == {"search", "department", "status", "minSalary", "maxSalary"}

\* Values a caller of setFilterConfig supplies for a key.
FilterValues(key) ==
  CASE key = "search" -> SearchTexts
    [] key = "department" -> DepartmentOptions
    [] key = "status" -> StatusOptions
    [] key = "minSalary" -> {0, 90000}
    [] key = "maxSalary" -> {200000, 90000, 220000}

\* Largest number of keys in one argument of setFilterConfig.
MaxKeys == 2

\* The objects that hold a value for each key of D.
RECURSIVE ConfigsOver(_)
ConfigsOver(D) ==
  IF D = {} THEN {<<>>}
  ELSE LET k == CHOOSE key \in D : TRUE
       IN {(k :> v) @@ config : v \in FilterValues(k), config \in ConfigsOver(D \ {k})}

\* Partial<FilterConfig>: the arguments of setFilterConfig.
PartialConfigs ==
  UNION {ConfigsOver(D) : D \in {K \in SUBSET FilterKeys : Cardinality(K) <= MaxKeys}}

\* The keys of a DataItem.
DataItemKeys == StringKeys \cup NumberKeys

\* SortConfig | null: the arguments of setSortConfig.
SortConfigs ==
  {None,
   Some([key |-> "salary", direction |-> "desc"]),
   Some([key |-> "department", direction |-> "asc"])}

\* useDataGridStore.getState().setItems(items)
callSetItems(items) ==
  /\ store' = setItems(store, items)
  /\ UNCHANGED <<timers, state, pending, lastCall, validationSchema>>

\* useDataGridStore.getState().setSortConfig(config)
callSetSortConfig(config) ==
  /\ store' = setSortConfig(store, config)
  /\ UNCHANGED <<timers, state, pending, lastCall, validationSchema>>

\* useDataGridStore.getState().setFilterConfig(config)
callSetFilterConfig(config) ==
  /\ store' = setFilterConfig(store, config)
  /\ UNCHANGED <<timers, state, pending, lastCall, validationSchema>>

NextStore ==
  \/ \E items \in ItemLists : callSetItems(items)
  \/ \E config \in SortConfigs : callSetSortConfig(config)
  \/ \E config \in PartialConfigs : callSetFilterConfig(config)

SpecStore == InitGrid /\ [][NextStore]_vars

\* ------------------------------- the store called directly, with paging
\* Length of the arrays handed to setItems when pages are turned.
MaxLoaded == 3

\* The arrays handed to setItems.
LoadedLists ==
  UNION {{[i \in 1..n |-> mockItem(i - 1, draws[i])] : draws \in [1..n -> StoreDraws]} :
           n \in 0..MaxLoaded}

\* Arguments of setFilterConfig that set the status filter.
StatusConfigs == {[status |-> value] : value \in StatusOptions}

\* Arguments of setItemsPerPage: the scaled page sizes and the default one.
PageSizes == PageSizeOptions \cup {initialStore.itemsPerPage}

\* useDataGridStore.getState().setCurrentPage(page)
callSetCurrentPage(page) ==
  /\ store' = setCurrentPage(store, page)
  /\ UNCHANGED <<timers, state, pending, lastCall, validationSchema>>

\* useDataGridStore.getState().setItemsPerPage(perPage)
callSetItemsPerPage(perPage) ==
  /\ store' = setItemsPerPage(store, perPage)
  /\ UNCHANGED <<timers, state, pending, lastCall, validationSchema>>

\* useDataGridStore.getState().resetFilters()
callResetFilters ==
  /\ store' = resetFilters(store)
  /\ UNCHANGED <<timers, state, pending, lastCall, validationSchema>>

\* useDataGridStore.getState().applyFiltersAndSort()
callApplyFiltersAndSort ==
  /\ store' = applyFiltersAndSort(store)
  /\ UNCHANGED <<timers, state, pending, lastCall, validationSchema>>

NextPaged ==
  \/ \E items \in LoadedLists : callSetItems(items)
  \/ \E page \in 1..MaxPage : callSetCurrentPage(page)
  \/ \E perPage \in PageSizes : callSetItemsPerPage(perPage)
  \/ \E config \in StatusConfigs : callSetFilterConfig(config)
  \/ \E config \in SortConfigs : callSetSortConfig(config)
  \/ callResetFilters
  \/ callApplyFiltersAndSort

SpecPaged == InitGrid /\ [][NextPaged]_vars

\* ------------------------------------------------------------- properties
\* A submitForm step whose validation fails / passes.
submitFormInvalid == hasErrors(state) /\ submitForm

submitFormValid == ~hasErrors(state) /\ submitForm

\* A step in which a suspended submitForm resumes and returns.
onSubmitSettles == onSubmitResolves \/ \E thrown \in ThrownValues : onSubmitRejects(thrown)

\* C1: every rendered field whose validator returns an error for the
\* field's current value (the value in the form state, or the component's
\* default when the field has no entry) gets that error attached by
\* submitForm(), and the onSubmit callback is not invoked.
C1_SubmitAttachesEveryError ==
  [][submitForm =>
       \A n \in Names :
         LET error == validateField(n, useFormField(state, n).value)
         IN Truthy(error) =>
              /\ n \in DOMAIN state'.fields
              /\ state'.fields[n].error = error
              /\ pending' = pending
              /\ lastCall' = lastCall]_vars

\* C2: while an onSubmit promise is pending, isSubmitting is true.
C2_PendingImpliesSubmitting == pending > 0 => state.isSubmitting

\* C3: a submitForm() that returns (validation failure, callback resolved,
\* callback rejected) leaves isSubmitting = false.
C3_SubmittingClearedOnReturn ==
  [][(submitFormInvalid \/ onSubmitSettles) => ~state'.isSubmitting]_vars

\* A rejected submission has returned: its message is attached and the
\* submitting flag is down.
C3_Witness ==
  /\ state.submitError = Some("Network error")
  /\ ~state.isSubmitting
  /\ pending = 0


\* C4: a submitForm() whose validation passes calls onSubmit exactly once
\* with a map holding, for every field of the form state, that field's
\* current value, a string or a boolean; when the promise fulfils,
\* isSubmitted is true and submitError is empty.
C4_ValidSubmitCallsOnce ==
  [][/\ submitFormValid =>
          /\ pending' = pending + 1
          /\ lastCall' # None
          /\ DOMAIN lastCall'[1] = DOMAIN state.fields
          /\ \A n \in DOMAIN state.fields :
               /\ lastCall'[1][n] = state.fields[n].value
               /\ typeof(lastCall'[1][n]) \in {"string", "boolean"}
     /\ onSubmitResolves =>
          /\ state'.isSubmitted
          /\ ~Truthy(state'.submitError)]_vars

\* The thrown value carries a message.
carriesMessage(thrown) == thrown.message # ""

\* C5: when the onSubmit promise rejects, submitError is the thrown
\* error's message, or 'Submission failed' when the thrown value carries
\* no message; it is never empty.
C5_RejectionLeavesMessage ==
  [][\A thrown \in ThrownValues :
       onSubmitRejects(thrown) =>
         /\ state'.submitError =
              Some(IF carriesMessage(thrown) THEN thrown.message
                   ELSE "Submission failed")
         /\ Truthy(state'.submitError)]_vars

\* C6: no step of submitForm() (its start, a validation failure, the
\* resumption after the callback fulfils or rejects) changes the value or
\* the touched flag of any field, nor the set of fields.
C6_SubmitKeepsValues ==
  [][(submitForm \/ onSubmitSettles) =>
       /\ DOMAIN state'.fields = DOMAIN state.fields
       /\ \A n \in DOMAIN state.fields :
            /\ state'.fields[n].value = state.fields[n].value
            /\ state'.fields[n].touched = state.fields[n].touched]_vars

\* A submit failed validation and the invalid text is still in the field.
C6_Witness ==
  /\ "email" \in DOMAIN state.fields
  /\ state.fields["email"].value = StrV(<<"a">>)
  /\ state.fields["email"].error = Some("Invalid email")
  /\ state.submitError = Some("")
  /\ ~state.isSubmitting
  /\ ~state.isSubmitted
  /\ lastCall = None

\* C7: after a submitForm() that fails validation, a field carries an
\* error message exactly if its validator returned an error, and no
\* form-level submitError is set.
C7_ExactlyInvalidFieldsCarryErrors ==
  [][submitFormInvalid =>
       /\ \A n \in DOMAIN state'.fields :
            Truthy(state'.fields[n].error)
              <=> Truthy(validateField(n, state.fields[n].value))
       /\ ~Truthy(state'.submitError)]_vars

othersUnchanged(name) ==
  /\ DOMAIN state'.fields = DOMAIN state.fields \cup {name}
  /\ \A m \in DOMAIN state.fields \ {name} : state'.fields[m] = state.fields[m]
  /\ state'.isSubmitting = state.isSubmitting
  /\ state'.isSubmitted = state.isSubmitted
  /\ state'.submitError = state.submitError

\* C9: setFieldValue(name, v) sets value = v and error = undefined and
\* keeps touched; setFieldError(name, e) sets error = e and keeps value and
\* touched; setFieldTouched(name) sets touched = true and keeps value and
\* error; each leaves the other fields and isSubmitting, isSubmitted and
\* submitError unchanged.
C9_FieldActionsChangeOwnAttribute ==
  [][\A name \in Names :
       LET before == spreadField(state.fields, name)
           after == state'.fields[name]
       IN /\ \A value \in ApiValues(name) :
               setFieldValue(name, value) =>
                 /\ after.value = value
                 /\ after.error = None
                 /\ after.touched = before.touched
                 /\ othersUnchanged(name)
          /\ \A error \in ApiErrors :
               setFieldError(name, error) =>
                 /\ after.error = Some(error)
                 /\ after.value = before.value
                 /\ after.touched = before.touched
                 /\ othersUnchanged(name)
          /\ setFieldTouched(name) =>
               /\ after.touched = Some(TRUE)
               /\ after.value = before.value
               /\ after.error = before.error
               /\ othersUnchanged(name)]_vars

\* All three actions have acted on one field, next to another field and
\* a submitted form.
C9_Witness ==
  /\ DOMAIN state.fields = Names
  /\ state.fields["email"].value = StrV(<<"a", "@">>)
  /\ state.fields["email"].error = Some("Custom error")
  /\ state.fields["email"].touched = Some(TRUE)
  /\ state.fields["terms"].value = BoolV(TRUE)
  /\ state.isSubmitted

\* C10: a field's error message is shown only if the field is touched.
C10_ErrorShownOnlyIfTouched ==
  \A n \in Names :
    errorShown(state, n) => useFormField(state, n).touched = Some(TRUE)

\* ------------------------------------------------- data grid properties
\* C11: after every completed store operation (setItems, setFilterConfig,
\* setSortConfig, setItemsPerPage, setCurrentPage, setLoading,
\* resetFilters) filteredItems is the result of filtering and then sorting
\* the current items with the current filterConfig and sortConfig: no
\* operation leaves filteredItems stale.
C11_FilteredItemsDerived ==
  store.filteredItems =
    applySort(applyFilters(store.items, store.filterConfig), store.sortConfig)

\* A filter has removed an item and the sort has reordered the rest.
C11_Witness ==
  /\ store.sortConfig # None
  /\ Len(store.filteredItems) >= 2
  /\ Len(store.filteredItems) < Len(store.items)
  /\ store.filteredItems # applyFilters(store.items, store.filterConfig)


\* C12: in every state reachable through the grid's operations (the
\* initial state, the data load, setFilterConfig, setSortConfig,
\* setItemsPerPage, resetFilters and the page changes of the enabled
\* pagination controls) 1 <= currentPage <= totalPages.
C12_CurrentPageWithinPages ==
  /\ 1 <= store.currentPage
  /\ store.currentPage <= store.totalPages


\* C13, as stated: in every reachable state, the initial state included,
\* totalPages = ceil(len(filteredItems) / itemsPerPage).
C13_TotalPagesIsCeil ==
  store.totalPages = mathCeil(Len(store.filteredItems), store.itemsPerPage)

\* C13, amended: totalPages = ceil(len(filteredItems) / itemsPerPage) in
\* every reachable state except the one the store is created with (before
\* any operation that recomputes), where totalPages is 1 although
\* filteredItems is empty.
C13_TotalPagesIsCeilOnceComputed ==
  \/ [store EXCEPT !.isLoading = FALSE] = initialStore
  \/ store.totalPages = mathCeil(Len(store.filteredItems), store.itemsPerPage)

\* Three items on pages of two: the quotient is rounded up.
C13_Witness ==
  /\ Len(store.filteredItems) = 3
  /\ store.itemsPerPage = 2
  /\ store.totalPages = 2


\* C14: applyFiltersAndSort keeps exactly the items that satisfy all of:
\* a non-empty search is a case-insensitive substring of the name, the
\* email or the department; the department equals a non-empty department
\* filter; the status equals a non-empty status filter; salary >= minSalary
\* for every minSalary other than the sentinel 0; salary <= maxSalary for
\* every maxSalary other than the sentinel 200000.
C14_KeepsExactlyMatching ==
  LET filterConfig == store.filterConfig
      searchLower == toLowerCase(filterConfig.search)
      satisfies(item) ==
        /\ filterConfig.search # <<>> =>
             \/ includesString(toLowerCase(item.name), searchLower)
             \/ includesString(toLowerCase(item.email), searchLower)
             \/ includesString(toLowerCase(item.department), searchLower)
        /\ filterConfig.department # <<>> => item.department = filterConfig.department
        /\ filterConfig.status # <<>> => item.status = filterConfig.status
        /\ filterConfig.minSalary # 0 => item.salary >= filterConfig.minSalary
        /\ filterConfig.maxSalary # 200000 => item.salary <= filterConfig.maxSalary
  IN \A i \in 1..Len(store.items) :
       (\E j \in 1..Len(store.filteredItems) : store.filteredItems[j] = store.items[i])
         <=> satisfies(store.items[i])


\* C15: filtering is commutative. Applying the five filter predicates in
\* any order keeps the same set of items as the order applyFiltersAndSort
\* uses, and setting the same filter keys through setFilterConfig in any
\* order yields the same filteredItems.
C15_FilteringCommutes ==
  LET step(k, filtered) ==
        CASE k = 1 -> filterBySearch(filtered, store.filterConfig)
          [] k = 2 -> filterByDepartment(filtered, store.filterConfig)
          [] k = 3 -> filterByStatus(filtered, store.filterConfig)
          [] k = 4 -> filterByMinSalary(filtered, store.filterConfig)
          [] k = 5 -> filterByMaxSalary(filtered, store.filterConfig)
      inOrder(p) == step(p[5], step(p[4], step(p[3], step(p[2], step(p[1], store.items)))))
      itemsOf(list) == {list[i] : i \in 1..Len(list)}
  IN /\ \A p \in Permutations(1..5) :
          itemsOf(inOrder(p)) = itemsOf(applyFilters(store.items, store.filterConfig))
     /\ \A K \in {D \in SUBSET FilterKeys : Cardinality(D) = 2} :
          \A config \in ConfigsOver(K) :
            LET k1 == CHOOSE k \in K : TRUE
                k2 == CHOOSE k \in K : k # k1
                c1 == k1 :> config[k1]
                c2 == k2 :> config[k2]
            IN setFilterConfig(setFilterConfig(store, c1), c2).filteredItems
                 = setFilterConfig(setFilterConfig(store, c2), c1).filteredItems

\* Two filters are set and together they keep some items and drop others.
C15_Witness ==
  /\ store.filterConfig.department # <<>>
  /\ store.filterConfig.maxSalary < 200000
  /\ Len(store.filteredItems) >= 1
  /\ Len(store.filteredItems) < Len(store.items)


\* C16, as stated: for every item list and every sort key (each holds
\* numbers only or strings only) sorting with direction 'desc' gives the
\* reverse of sorting with direction 'asc', also when several items share
\* the key value.
C16_DescIsReverseOfAsc ==
  LET reverse(list) == [i \in 1..Len(list) |-> list[Len(list) + 1 - i]]
      sorted(key, direction) == sort(store.items, [key |-> key, direction |-> direction])
  IN \A key \in DataItemKeys : sorted(key, "desc") = reverse(sorted(key, "asc"))

\* C16, amended: for every item list and every sort key, the key values of
\* the 'desc' result read in order are the reverse of the key values of the
\* 'asc' result, both results hold the same items, and when no two items
\* share the key value the 'desc' result is the reverse of the 'asc'
\* result; items that share the key value keep the order they have in the
\* list in both directions.
C16_DescReversesKeys ==
  LET reverse(list) == [i \in 1..Len(list) |-> list[Len(list) + 1 - i]]
      sorted(key, direction) == sort(store.items, [key |-> key, direction |-> direction])
      keysOf(list, key) == [i \in 1..Len(list) |-> list[i][key]]
      itemsOf(list) == {list[i] : i \in 1..Len(list)}
      distinctKeys(key) ==
        \A i, j \in 1..Len(store.items) :
          i # j => store.items[i][key] # store.items[j][key]
      tiesKeepOrder(list, key) ==
        \A i, j \in 1..Len(list) :
          i < j /\ list[i][key] = list[j][key] => list[i].id < list[j].id
  IN \A key \in DataItemKeys :
       /\ keysOf(sorted(key, "desc"), key) = reverse(keysOf(sorted(key, "asc"), key))
       /\ itemsOf(sorted(key, "desc")) = itemsOf(sorted(key, "asc"))
       /\ Len(sorted(key, "desc")) = Len(sorted(key, "asc"))
       /\ distinctKeys(key) => sorted(key, "desc") = reverse(sorted(key, "asc"))
       /\ tiesKeepOrder(sorted(key, "asc"), key)
       /\ tiesKeepOrder(sorted(key, "desc"), key)

\* A list is shown sorted by salary, highest first, in another order than
\* the one it was loaded in.
C16_Witness ==
  /\ store.sortConfig = Some([key |-> "salary", direction |-> "desc"])
  /\ Len(store.filteredItems) = 2
  /\ store.filteredItems[1].salary > store.filteredItems[2].salary
  /\ store.filteredItems # store.items


\* C17: after every step in which applyFiltersAndSort runs (every step
\* that changes more of the store than currentPage and isLoading), with n
\* matching items and page size p > 0, the pages 1..ceil(n/p) that
\* paginatedItems slices from filteredItems at [(page-1)*p, page*p)
\* partition filteredItems in order:
\* every page has exactly p items except possibly the last, which has
\* between 1 and p items, and totalPages equals ceil(n/p).
C17_PagesPartition ==
  [][[store' EXCEPT !.currentPage = store.currentPage,
                     !.isLoading = store.isLoading] # store =>
       LET n == Len(store'.filteredItems)
           p == store'.itemsPerPage
           pages == CHOOSE c \in 0..n : c * p >= n /\ (c - 1) * p < n
           slice(k) == paginatedItems(store'.filteredItems, k, p)
       IN /\ p > 0
          /\ store'.totalPages = pages
          /\ \A k \in 1..pages :
               /\ k < pages => Len(slice(k)) = p
               /\ k = pages => (1 <= Len(slice(k)) /\ Len(slice(k)) <= p)
               /\ k = pages => (pages - 1) * p + Len(slice(k)) = n
               /\ \A j \in 1..Len(slice(k)) :
                    slice(k)[j] = store'.filteredItems[(k - 1) * p + j]]_vars

\* Three matching items on pages of two: a full page and a last page of one.
C17_Witness ==
  /\ Len(store.filteredItems) = 3
  /\ store.itemsPerPage = 2
  /\ store.totalPages = 2
  /\ Len(paginatedItems(store.filteredItems, 1, 2)) = 2
  /\ Len(paginatedItems(store.filteredItems, 2, 2)) = 1
  /\ store.sortConfig # None


\* C18: setFilterConfig(partial) yields a filterConfig equal to the
\* previous one with exactly the supplied keys overridden (all five keys
\* stay present), sets currentPage to 1, and leaves items, sortConfig,
\* itemsPerPage and isLoading unchanged: checked for the call with one key
\* (what the FilterPanel handlers pass), with two keys and with no key, in
\* every state the grid reaches.
C18_SetFilterConfigFrame ==
  LET partials ==
        UNION {ConfigsOver(D) :
                 D \in {{k} : k \in FilterKeys} \cup {{"search", "maxSalary"}, {}}}
  IN \A config \in partials :
       LET after == setFilterConfig(store, config)
       IN /\ DOMAIN after.filterConfig = FilterKeys
          /\ \A k \in FilterKeys :
               after.filterConfig[k] =
                 IF k \in DOMAIN config THEN config[k] ELSE store.filterConfig[k]
          /\ after.currentPage = 1
          /\ after.items = store.items
          /\ after.sortConfig = store.sortConfig
          /\ after.itemsPerPage = store.itemsPerPage
          /\ after.isLoading = store.isLoading

\* The second page of a sorted list with a search text, shown one item
\* per page while the data reloads: a filter change from here goes back to
\* page 1 and keeps the rest.
C18_Witness ==
  /\ store.filterConfig.search # <<>>
  /\ store.sortConfig # None
  /\ store.itemsPerPage = 1
  /\ store.isLoading
  /\ store.items # <<>>
  /\ store.currentPage = 2
  /\ setFilterConfig(store, [department |-> HR]).currentPage = 1


\* C19: setItemsPerPage(n) sets itemsPerPage = n and currentPage = 1,
\* leaves items, filterConfig, sortConfig and the content and order of
\* filteredItems unchanged, and leaves
\* totalPages = ceil(len(filteredItems) / n): checked for the call in every
\* state the grid reaches.
C19_SetItemsPerPageFrame ==
  \A n \in PageSizeOptions :
    LET after == setItemsPerPage(store, n)
    IN /\ after.itemsPerPage = n
       /\ after.currentPage = 1
       /\ after.items = store.items
       /\ after.filterConfig = store.filterConfig
       /\ after.sortConfig = store.sortConfig
       /\ after.filteredItems = store.filteredItems
       /\ after.totalPages * n >= Len(after.filteredItems)
       /\ (after.totalPages - 1) * n < Len(after.filteredItems)

\* The second page of a filtered and sorted list shown one item per page:
\* choosing two items per page from here leads to page 1 of 1.
C19_Witness ==
  /\ store.itemsPerPage = 1
  /\ store.currentPage = 2
  /\ store.totalPages = 2
  /\ Len(store.filteredItems) = 2
  /\ Len(store.items) = 3
  /\ store.sortConfig # None
  /\ setItemsPerPage(store, 2).currentPage = 1
  /\ setItemsPerPage(store, 2).totalPages = 1


\* C20: a click on a column header sets sortConfig as follows: when the
\* clicked key is the current sort key the direction flips (asc to desc,
\* desc to asc); when it is another key or no sort is active the new
\* sortConfig is that key with direction asc. The click leaves currentPage
\* and filterConfig unchanged. Checked for a click on each of the six
\* headers in every state in which the table is rendered.
C20_HeaderClickTogglesSort ==
  ~store.isLoading =>
    \A key \in DataItemKeys \ {"id"} :
      LET after == headerClick(store, key)
      IN /\ after.sortConfig # None
         /\ after.sortConfig[1].key = key
         /\ after.sortConfig[1].direction =
              IF store.sortConfig # None /\ store.sortConfig[1].key = key
              THEN (IF store.sortConfig[1].direction = "asc" THEN "desc" ELSE "asc")
              ELSE "asc"
         /\ after.currentPage = store.currentPage
         /\ after.filterConfig = store.filterConfig

\* The salary header was clicked twice on the second page of a filtered
\* list.
C20_Witness ==
  /\ store.sortConfig = Some([key |-> "salary", direction |-> "desc"])
  /\ store.currentPage = 2
  /\ hasActiveFilters(store.filterConfig)

\* C21: from any loaded item list and any currentPage, with no other filter
\* set, setFilterConfig({status: 'active'}) followed by
\* setSortConfig({key: 'salary', direction: 'desc'}) leaves currentPage = 1,
\* and the visible page holds min(page size, number of active items) items,
\* all of them active, in non-increasing salary order, and no active item
\* outside the page has a salary greater than an item on the page. The page
\* size is the store's: the default 20 or one scaled to the loaded lists.
C21_ActiveBySalaryScenario ==
  store.filterConfig = [defaultFilterConfig EXCEPT !.status = store.filterConfig.status] =>
    LET after == setSortConfig(setFilterConfig(store, [status |-> active]),
                               Some([key |-> "salary", direction |-> "desc"]))
        page == paginatedItems(after.filteredItems, after.currentPage,
                               after.itemsPerPage)
        isActive(item) == item.status = active
        activeItems == SelectSeq(store.items, isActive)
    IN /\ after.currentPage = 1
       /\ Len(page) = Min(after.itemsPerPage, Len(activeItems))
       /\ \A i \in 1..Len(page) :
            /\ page[i].status = active
            /\ \E k \in 1..Len(activeItems) : activeItems[k] = page[i]
       /\ \A i \in 1..Len(page), j \in 1..Len(page) :
            i < j => page[i].salary >= page[j].salary
       /\ \A k \in 1..Len(activeItems) :
            (\A i \in 1..Len(page) : page[i] # activeItems[k]) =>
              \A i \in 1..Len(page) : activeItems[k].salary <= page[i].salary

\* The scenario has run on three items shown one per page: the inactive
\* item is gone, the better paid active item, loaded last, is on the page
\* and the other active item is behind it.
C21_Witness ==
  /\ Len(store.items) = 3
  /\ store.itemsPerPage = 1
  /\ store.currentPage = 1
  /\ store.filterConfig.status = active
  /\ store.sortConfig = Some([key |-> "salary", direction |-> "desc"])
  /\ Len(store.filteredItems) = 2
  /\ store.items[1].status = inactive
  /\ store.filteredItems[1] = store.items[3]
  /\ store.filteredItems[1].salary > store.filteredItems[2].salary
  /\ paginatedItems(store.filteredItems, 1, 1) = <<store.items[3]>>

\* C22: after a call of initializeDataGrid isLoading is true until the
\* simulated delay of that call elapses, that is, as long as a setTimeout
\* callback of initializeDataGrid is waiting.
C22_LoadingUntilDelayElapses == timers > 0 => store.isLoading

\* C23: search filtering is debounced: the filter is recomputed only once
\* typing pauses, so a change of the search input does not itself put the
\* typed text into filterConfig and recompute filteredItems; of a burst of
\* k > 1 changes at most the last leads to a recomputation.
C23_SearchChangeIsDebounced ==
  [][\A value \in SearchTexts :
       handleSearchChange(value) =>
         /\ store'.filterConfig = store.filterConfig
         /\ store'.filteredItems = store.filteredItems]_vars

\* C24: resetFilters() restores filterConfig to its defaults (empty search,
\* department and status, minSalary 0, maxSalary 200000), sets sortConfig to
\* null and currentPage to 1 and leaves filteredItems equal to items in
\* their original order, whatever filters and sorts were applied before;
\* items and itemsPerPage are unchanged. Checked for the call in every state
\* the grid reaches.
C24_ResetFiltersRestores ==
  LET after == resetFilters(store)
  IN /\ after.filterConfig.search = <<>>
     /\ after.filterConfig.department = <<>>
     /\ after.filterConfig.status = <<>>
     /\ after.filterConfig.minSalary = 0
     /\ after.filterConfig.maxSalary = 200000
     /\ DOMAIN after.filterConfig = FilterKeys
     /\ after.sortConfig = None
     /\ after.currentPage = 1
     /\ after.filteredItems = store.items
     /\ after.items = store.items
     /\ after.itemsPerPage = store.itemsPerPage

\* Clear All is pressed on the second page of a list that is filtered down
\* to two of three items and sorted into another order than the items'.
C24_Witness ==
  /\ Len(store.items) = 3
  /\ Len(store.filteredItems) = 2
  /\ hasActiveFilters(store.filterConfig)
  /\ store.sortConfig # None
  /\ store.filteredItems # applyFilters(store.items, store.filterConfig)
  /\ store.currentPage = 2
  /\ store.itemsPerPage = 1
  /\ resetFilters(store).filteredItems = store.items

\* C25: after a change event on a field with new value v the field's value
\* is v and its error is the schema validator's result for v (undefined
\* when v is valid or the schema has no entry for the field); after a blur
\* event on a field its touched is true and its error is the validator's
\* result for the field's current value, the one the blurred input holds.
\* Checked for the event on each field in every state the form reaches.
C25_ChangeAndBlurValidate ==
  \A name \in Names :
    /\ \A value \in InputValues(name) :
         LET after == dispatch(state,
                        IF name \in TextFields
                        THEN handleInputChangeActions(state, name, value)
                        ELSE handleChangeActions(name, value))
         IN /\ after.fields[name].value = value
            /\ after.fields[name].error = validateField(name, value)
    /\ LET after == dispatch(state, handleBlurActions(state, name))
       IN /\ after.fields[name].touched = Some(TRUE)
          /\ after.fields[name].error =
               validateField(name, useFormField(state, name).value)

\* C26: no grid operation (setFilterConfig, setSortConfig, setItemsPerPage,
\* setCurrentPage, resetFilters, applyFiltersAndSort) changes the items
\* list: its elements, their field values and their order stay as given to
\* setItems; sorting reorders only filteredItems. Checked for each call in
\* every state the store reaches.
C26_OperationsKeepItems ==
  /\ \A key \in FilterKeys : \A config \in ConfigsOver({key}) :
       setFilterConfig(store, config).items = store.items
  /\ \A config \in SortConfigs : setSortConfig(store, config).items = store.items
  /\ \A perPage \in PageSizes : setItemsPerPage(store, perPage).items = store.items
  /\ \A page \in 1..MaxPage : setCurrentPage(store, page).items = store.items
  /\ resetFilters(store).items = store.items
  /\ applyFiltersAndSort(store).items = store.items

\* Three unfiltered items are shown in another order than they were given
\* in, sorted by salary from the highest.
C26_Witness ==
  /\ Len(store.items) = 3
  /\ ~hasActiveFilters(store.filterConfig)
  /\ store.sortConfig = Some([key |-> "salary", direction |-> "desc"])
  /\ Len(store.filteredItems) = 3
  /\ store.filteredItems # store.items
  /\ store.items[1].salary < store.items[3].salary
  /\ store.filteredItems[1] = store.items[3]

\* C27: in every reachable form state every entry of state.fields is a
\* well-formed FormField: its name equals its key, its value is a string or
\* a boolean (never undefined) and its touched is a boolean; in particular
\* after a blur on a field that has no initial value and was never edited.
C27_FieldsWellFormed ==
  \A key \in DOMAIN state.fields :
    /\ state.fields[key].name = Some(key)
    /\ typeof(state.fields[key].value) \in {"string", "boolean"}
    /\ state.fields[key].touched \in {Some(TRUE), Some(FALSE)}

\* C28: isSubmitted is true only if the most recently completed
\* submitForm() succeeded, so in no reachable state are isSubmitted = true
\* and a non-empty submitError present together.
C28_SubmittedExcludesSubmitError ==
  ~(state.isSubmitted /\ Truthy(state.submitError))

\* C29: after resetForm(), isSubmitting = false, isSubmitted = false and
\* submitError = undefined keep holding until the next submitForm() call,
\* even when an onSubmit callback that was pending at the reset resolves or
\* throws afterwards: no step other than submitForm leaves that state.
C29_ResetHoldsUntilNextSubmit ==
  [][(/\ ~state.isSubmitting
      /\ ~state.isSubmitted
      /\ state.submitError = None
      /\ ~submitForm)
       => (/\ ~state'.isSubmitting
           /\ ~state'.isSubmitted
           /\ state'.submitError = None)]_vars

\* C30: whenever the grid is not loading, the summary panel shows
\* Total Items = len(items) and Filtered Items = len(filteredItems), and its
\* active, inactive and pending counts sum to len(filteredItems), also when
\* the active filters match no item.
C30_SummaryShowsCounts ==
  ~store.isLoading =>
    /\ stats(store).totalItems = Len(store.items)
    /\ stats(store).filteredItems = Len(store.filteredItems)
    /\ stats(store).activeCount + stats(store).inactiveCount
         + stats(store).pendingCount = Len(store.filteredItems)

====
